---- MODULE Spec2Model ----
(***************************************************************************)
(* Tool handlers and tool registry of src/tools/tools.py.                  *)
(*                                                                         *)
(* Representation.                                                         *)
(*  - A Python value (JSON document, argument, field) is a tagged record   *)
(*    [kind, val]: "str", "num", "null", "list", "dict", or "obj" (a       *)
(*    Python object json cannot serialise).  A dict is the sequence of its *)
(*    [key, val] items in insertion order, keys unique.                    *)
(*  - A text (Python str) is the sequence of its lexemes: maximal runs of  *)
(*    letters/digits, and every blank, newline and punctuation mark on its *)
(*    own.  Two texts are equal iff their lexeme sequences are equal.      *)
(*  - The module source is ASCII: the Japanese prefecture names and the    *)
(*    Japanese message fragments of the weather handler are written in     *)
(*    romanised form (Tokyo-to stands for the key of AREA_CODES whose code *)
(*    is 130000, and so on).                                               *)
(*  - A fault is a Python exception caught by "except Exception": a record *)
(*    [type, msg] where msg is the text str(e).                            *)
(***************************************************************************)
EXTENDS Integers, Sequences, FiniteSets, TLC

VARIABLES AREA_CODES, TOOL_REGISTRY, pc, tool, args, resp, ret, outbound

vars == <<AREA_CODES, TOOL_REGISTRY, pc, tool, args, resp, ret, outbound>>

(* ---------------------------------------------------------------------- *)
(* Bounds                                                                  *)
(* ---------------------------------------------------------------------- *)

\* number of invocation slots of the host
NumInv == 2

\* longest hit list / shard list / index list a collaborator returns
MaxItems == 2

Procs == 1..NumInv

(* ---------------------------------------------------------------------- *)
(* Python values, texts, faults                                            *)
(* ---------------------------------------------------------------------- *)

Str(t) == [kind |-> "str", val |-> t]

Num(n) == [kind |-> "num", val |-> n]

Null == [kind |-> "null", val |-> 0]

List(s) == [kind |-> "list", val |-> s]

Dict(items) == [kind |-> "dict", val |-> items]

Obj == [kind |-> "obj", val |-> 0]

Item(k, v) == [key |-> k, val |-> v]

NoExc == [type |-> "none", msg |-> <<>>]

Exc(type, msg) == [type |-> type, msg |-> msg]

\* a computation that produced the value v
Ok(v) == [ok |-> TRUE, val |-> v, exc |-> NoExc]

\* a computation that raised the exception type(msg)
Raise(type, msg) == [ok |-> FALSE, val |-> Null, exc |-> Exc(type, msg)]

\* the Python name of the type of v, as it appears in messages
TypeName(v) ==
    CASE v.kind = "str" -> "str"
      [] v.kind = "num" -> "int"
      [] v.kind = "null" -> "NoneType"
      [] v.kind = "list" -> "list"
      [] v.kind = "dict" -> "dict"
      [] OTHER -> "bytes"

Keys(d) == {d.val[i].key : i \in 1..Len(d.val)}

\* d.get(k, default) and d[k] on a dict that has k
Lookup(d, k) == d.val[CHOOSE i \in 1..Len(d.val) : d.val[i].key = k].val

\* del d[k] on a dict that has k: the other items keep their order
DelKey(d, k) == Dict(SelectSeq(d.val, LAMBDA it : it.key # k))

\* d[k] = v on a dict that has k
SetKey(d, k, v) ==
    Dict([i \in 1..Len(d.val) |-> IF d.val[i].key = k THEN Item(k, v) ELSE d.val[i]])

\* the lexemes of t, as a set
Lexemes(t) == {t[i] : i \in 1..Len(t)}

\* k in v
Contains(v, k) ==
    CASE v.kind = "dict" -> Ok(k \in Keys(v))
      [] v.kind = "list" -> Ok(\E i \in 1..Len(v.val) : v.val[i] = Str(<<k>>))
      [] v.kind = "str" -> Ok(k \in Lexemes(v.val))
      [] OTHER -> Raise("TypeError", <<"argument", " ", "of", " ", "type", " ", "'",
                                       TypeName(v), "'", " ", "is", " ", "not", " ", "iterable">>)

\* v[k] for a str key k
Subscript(v, k) ==
    CASE v.kind = "dict" ->
            IF k \in Keys(v) THEN Ok(Lookup(v, k)) ELSE Raise("KeyError", <<"'", k, "'">>)
      [] v.kind = "list" ->
            Raise("TypeError", <<"list", " ", "indices", " ", "must", " ", "be", " ",
                                 "integers", " ", "or", " ", "slices", ",", " ", "not", " ", "str">>)
      [] v.kind = "str" ->
            Raise("TypeError", <<"string", " ", "indices", " ", "must", " ", "be", " ", "integers",
                                 ",", " ", "not", " ", "'", "str", "'">>)
      [] OTHER ->
            Raise("TypeError", <<"'", TypeName(v), "'", " ", "object", " ", "is", " ",
                                 "not", " ", "subscriptable">>)

\* del v[k] for a str key k that "k in v" found
DelItem(v, k) ==
    CASE v.kind = "dict" -> Ok(DelKey(v, k))
      [] v.kind = "list" ->
            Raise("TypeError", <<"list", " ", "indices", " ", "must", " ", "be", " ",
                                 "integers", " ", "or", " ", "slices", ",", " ", "not", " ", "str">>)
      [] OTHER ->
            Raise("TypeError", <<"'", TypeName(v), "'", " ", "object", " ", "doesn't", " ",
                                 "support", " ", "item", " ", "deletion">>)

\* for x in v: the values the loop visits
Iterate(v) ==
    CASE v.kind = "list" -> Ok(v.val)
      [] v.kind = "dict" -> Ok([i \in 1..Len(v.val) |-> Str(<<v.val[i].key>>)])
      [] v.kind = "str" -> Ok([i \in 1..Len(v.val) |-> Str(<<v.val[i]>>)])
      [] OTHER ->
            Raise("TypeError", <<"'", TypeName(v), "'", " ", "object", " ", "is", " ",
                                 "not", " ", "iterable">>)

\* v.get(k, default)
GetMethod(v, k, default) ==
    IF v.kind = "dict"
    THEN Ok(IF k \in Keys(v) THEN Lookup(v, k) ELSE default)
    ELSE Raise("AttributeError", <<"'", TypeName(v), "'", " ", "object", " ", "has", " ", "no",
                                   " ", "attribute", " ", "'", "get", "'">>)

\* str(v) and the {v} of an f-string
RECURSIVE Format(_)
RECURSIVE FormatItems(_, _)
Format(v) ==
    CASE v.kind = "str" -> v.val
      [] v.kind = "num" -> <<ToString(v.val)>>
      [] v.kind = "null" -> <<"None">>
      [] v.kind = "list" -> <<"[">> \o FormatItems(v, 1) \o <<"]">>
      [] v.kind = "dict" -> <<"{">> \o FormatItems(v, 1) \o <<"}">>
      [] OTHER -> <<"b", "'", "'">>

\* repr of an element of a container
Repr(v) == IF v.kind = "str" THEN <<"'">> \o v.val \o <<"'">> ELSE Format(v)

FormatItems(v, i) ==
    IF i > Len(v.val) THEN <<>>
    ELSE (IF v.kind = "dict"
          THEN <<"'", v.val[i].key, "'", ":", " ">> \o Repr(v.val[i].val)
          ELSE Repr(v.val[i]))
         \o (IF i < Len(v.val) THEN <<",", " ">> ELSE <<>>)
         \o FormatItems(v, i + 1)

\* json.dumps can serialise v
RECURSIVE Serializable(_)
Serializable(v) ==
    CASE v.kind \in {"str", "num", "null"} -> TRUE
      [] v.kind = "list" -> \A i \in 1..Len(v.val) : Serializable(v.val[i])
      [] v.kind = "dict" -> \A i \in 1..Len(v.val) : Serializable(v.val[i].val)
      [] OTHER -> FALSE

\* the escapes json.dumps applies inside a string
Escape(t) ==
    [i \in 1..Len(t) |->
        CASE t[i] = "\"" -> "\\\""
          [] t[i] = "\\" -> "\\\\"
          [] t[i] = "\n" -> "\\n"
          [] OTHER -> t[i]]

Indent(lvl) == [i \in 1..(2 * lvl) |-> " "]

\* json.dumps(v, indent=2) of a serialisable v nested lvl containers deep
RECURSIVE Dumps(_, _)
RECURSIVE DumpsItems(_, _, _)
Dumps(v, lvl) ==
    CASE v.kind = "str" -> <<"\"">> \o Escape(v.val) \o <<"\"">>
      [] v.kind = "num" -> <<ToString(v.val)>>
      [] v.kind = "null" -> <<"null">>
      [] v.kind = "list" ->
            IF Len(v.val) = 0 THEN <<"[", "]">>
            ELSE <<"[", "\n">> \o DumpsItems(v, 1, lvl + 1) \o <<"\n">> \o Indent(lvl) \o <<"]">>
      [] OTHER ->
            IF Len(v.val) = 0 THEN <<"{", "}">>
            ELSE <<"{", "\n">> \o DumpsItems(v, 1, lvl + 1) \o <<"\n">> \o Indent(lvl) \o <<"}">>

DumpsItems(v, i, lvl) ==
    IF i > Len(v.val) THEN <<>>
    ELSE Indent(lvl)
         \o (IF v.kind = "dict"
             THEN <<"\"", v.val[i].key, "\"", ":", " ">> \o Dumps(v.val[i].val, lvl)
             ELSE Dumps(v.val[i], lvl))
         \o (IF i < Len(v.val) THEN <<",", "\n">> ELSE <<>>)
         \o DumpsItems(v, i + 1, lvl)

\* json.dumps(v, indent=2)
JsonDumps(v) ==
    IF Serializable(v) THEN Ok(Dumps(v, 0))
    ELSE Raise("TypeError", <<"Object", " ", "of", " ", "type", " ", "bytes", " ", "is", " ",
                              "not", " ", "JSON", " ", "serializable">>)

\* the response envelope [{"type": "text", "text": t}]
Envelope(t) == <<[type |-> "text", text |-> t]>>

(* ---------------------------------------------------------------------- *)
(* Module-level tables                                                     *)
(* ---------------------------------------------------------------------- *)

\* prefecture -> overview_forecast code of the Japan Meteorological Agency
AreaCodeTable ==
    ("Hokkaido" :> "016000") @@
    ("Aomori-ken" :> "020000") @@
    ("Iwate-ken" :> "030000") @@
    ("Miyagi-ken" :> "040000") @@
    ("Akita-ken" :> "050000") @@
    ("Yamagata-ken" :> "060000") @@
    ("Fukushima-ken" :> "070000") @@
    ("Ibaraki-ken" :> "080000") @@
    ("Tochigi-ken" :> "090000") @@
    ("Gunma-ken" :> "100000") @@
    ("Saitama-ken" :> "110000") @@
    ("Chiba-ken" :> "120000") @@
    ("Tokyo-to" :> "130000") @@
    ("Kanagawa-ken" :> "140000") @@
    ("Niigata-ken" :> "150000") @@
    ("Toyama-ken" :> "160000") @@
    ("Ishikawa-ken" :> "170000") @@
    ("Fukui-ken" :> "180000") @@
    ("Yamanashi-ken" :> "190000") @@
    ("Nagano-ken" :> "200000") @@
    ("Gifu-ken" :> "210000") @@
    ("Shizuoka-ken" :> "220000") @@
    ("Aichi-ken" :> "230000") @@
    ("Mie-ken" :> "240000") @@
    ("Shiga-ken" :> "250000") @@
    ("Kyoto-fu" :> "260000") @@
    ("Osaka-fu" :> "270000") @@
    ("Hyogo-ken" :> "280000") @@
    ("Nara-ken" :> "290000") @@
    ("Wakayama-ken" :> "300000") @@
    ("Tottori-ken" :> "310000") @@
    ("Shimane-ken" :> "320000") @@
    ("Okayama-ken" :> "330000") @@
    ("Hiroshima-ken" :> "340000") @@
    ("Yamaguchi-ken" :> "350000") @@
    ("Tokushima-ken" :> "360000") @@
    ("Kagawa-ken" :> "370000") @@
    ("Ehime-ken" :> "380000") @@
    ("Kochi-ken" :> "390000") @@
    ("Fukuoka-ken" :> "400000") @@
    ("Saga-ken" :> "410000") @@
    ("Nagasaki-ken" :> "420000") @@
    ("Kumamoto-ken" :> "430000") @@
    ("Oita-ken" :> "440000") @@
    ("Miyazaki-ken" :> "450000") @@
    ("Kagoshima-ken" :> "460100") @@
    ("Okinawa-ken" :> "471000")

\* the value AREA_CODES.get(k) gives for a missing key
NoCode == ""

\* the pydantic argument models: the fields each requires
ArgsModels ==
    ("ListIndicesArgs" :> {}) @@
    ("GetIndexMappingArgs" :> {"index"}) @@
    ("SearchIndexArgs" :> {"index", "query"}) @@
    ("GetShardsArgs" :> {"index"}) @@
    ("WeatherArgs" :> {"prefecture"})

RegistryEntry(description, function, args_model) ==
    [description |-> description, input_schema |-> ArgsModels[args_model],
     function |-> function, args_model |-> args_model]

RegistryTable ==
    ("ListIndexTool" :>
        RegistryEntry("Lists all indices in OpenSearch",
                      "list_indices_tool", "ListIndicesArgs")) @@
    ("IndexMappingTool" :>
        RegistryEntry("Retrieves index mapping and setting information for an index in OpenSearch",
                      "get_index_mapping_tool", "GetIndexMappingArgs")) @@
    ("SearchIndexTool" :>
        RegistryEntry("Searches an index using a query written in query domain-specific language (DSL) in OpenSearch",
                      "search_index_tool", "SearchIndexArgs")) @@
    ("GetShardsTool" :>
        RegistryEntry("Gets information about shards in OpenSearch",
                      "get_shards_tool", "GetShardsArgs")) @@
    ("GetWeatherTool" :>
        RegistryEntry("Retrieves weather information for a Japanese prefecture using the Japan Meteorological Agency API",
                      "get_weather_tool", "WeatherArgs"))

(* ---------------------------------------------------------------------- *)
(* Texts of the handlers                                                   *)
(* ---------------------------------------------------------------------- *)

ErrListingPrefix == <<"Error", " ", "listing", " ", "indices", ":", " ">>

ErrMappingPrefix == <<"Error", " ", "getting", " ", "mapping", ":", " ">>

ErrSearchPrefix == <<"Error", " ", "searching", " ", "index", ":", " ">>

ErrShardsPrefix == <<"Error", " ", "getting", " ", "shards", ":", " ">>

ErrShardsInfoPrefix == <<"Error", " ", "getting", " ", "shards", " ", "information", ":", " ">>

ShardsHeader == <<"index", " ", "|", " ", "shard", " ", "|", " ", "prirep", " ", "|", " ", "state", " ", "|", " ", "docs", " ", "|", " ", "store", " ", "|", " ", "ip", " ", "|", " ", "node", "\n">>

\* the columns with docs and store exchanged
ShardKeys_swapped == <<"index", "shard", "prirep", "state", "store", "docs", "ip", "node">>

ShardKeys == <<"index", "shard", "prirep", "state", "docs", "store", "ip", "node">>

ColumnSep == <<" ", "|", " ">>

MappingText(index, formatted) == <<"Mapping", " ", "for", " ">> \o index \o <<":", "\n">> \o formatted

SearchText(index, formatted) == <<"Original", " ", "Search", " ", "results", " ", "from", " ">> \o index \o <<":", "\n">> \o formatted

\* "(warning sign) [prefecture] is not supported. Specify one of the 47 prefectures."
UnsupportedText(prefecture) ==
    <<"(!)", " ", "[", prefecture, "]", " ">> \o <<"wa", " ", "taiou", " ", "shite", " ", "imasen", ".", " ", "47", " ", "todofuken", " ", "no", " ", "izureka", " ", "wo", " ", "shitei", " ", "shite", " ", "kudasai", ".">>

\* "(warning sign) Failed to get the weather information (JMA API communication error)"
WeatherFailureText == <<"(!)", " ">> \o <<"tenki", " ", "joho", " ", "no", " ", "shutoku", " ", "ni", " ", "shippai", " ", "shimashita", " ", "(", "kishocho", " ", "API", " ", "tsushin", " ", "era", ")">>

\* the defaults of data.get: "unknown", "weather information could not be obtained."
DefaultUnknown == Str(<<"fumei">>)

DefaultText == Str(<<"tenki", " ", "joho", " ", "ga", " ", "shutoku", " ", "dekimasen", " ", "deshita", ".">>)

\* "(pin) prefecture (office happyou)\n(clock) datetime\n\ntext"
WeatherText(prefecture, office, datetime, text) ==
    <<"(pin)", " ", prefecture, "(">> \o office \o <<" ", "happyou", ")", "\n", "(clock)", " ">>
    \o datetime \o <<"\n", "\n">> \o text

ForecastUrl(code) ==
    <<"https", ":", "/", "/", "www", ".", "jma", ".", "go", ".", "jp", "/", "bosai", "/",
      "forecast", "/", "data", "/", "overview", "_", "forecast", "/", code, ".", "json">>

(* ---------------------------------------------------------------------- *)
(* Handlers: the body of each try block, then the handler with its except  *)
(* clause.  a is the validated argument object, r what the collaborator    *)
(* did: Ok(value) when it returned value, Raise(..) when it raised.        *)
(* ---------------------------------------------------------------------- *)

\* index["index"] for index in indices, from the i-th on: the first fault wins
RECURSIVE IndexFields(_, _)
IndexFields(indices, i) ==
    IF i > Len(indices) THEN Ok(<<>>)
    ELSE LET f == Subscript(indices[i], "index") IN
         IF ~f.ok THEN f
         ELSE LET rest == IndexFields(indices, i + 1) IN
              IF ~rest.ok THEN rest ELSE Ok(<<f.val>> \o rest.val)

RECURSIVE JoinFrom(_, _)
JoinFrom(items, i) ==
    IF i > Len(items) THEN <<>>
    ELSE items[i].val \o (IF i < Len(items) THEN <<"\n">> ELSE <<>>) \o JoinFrom(items, i + 1)

\* "\n".join(items)
JoinLines(items) ==
    IF \A i \in 1..Len(items) : items[i].kind = "str"
    THEN Ok(JoinFrom(items, 1))
    ELSE LET bad == CHOOSE i \in 1..Len(items) :
                        /\ items[i].kind # "str"
                        /\ \A j \in 1..(i - 1) : items[j].kind = "str"
         IN Raise("TypeError", <<"sequence", " ", "item", " ", ToString(bad - 1), ":", " ",
                                 "expected", " ", "str", " ", "instance", ",", " ",
                                 TypeName(items[bad]), " ", "found">>)

list_indices_try(a, r) ==
    IF ~r.ok THEN r
    ELSE LET it == Iterate(r.val) IN
         IF ~it.ok THEN it
         ELSE LET names == IndexFields(it.val, 1) IN
              IF ~names.ok THEN names
              ELSE LET indices_text == JoinLines(names.val) IN
                   IF ~indices_text.ok THEN indices_text
                   ELSE Ok(Envelope(indices_text.val))

\* list_indices_tool without its except clause
list_indices_tool_no_except(a, r) == list_indices_try(a, r)

list_indices_tool(a, r) ==
    LET t == list_indices_try(a, r) IN
    IF t.ok THEN t ELSE Ok(Envelope(ErrListingPrefix \o t.exc.msg))

get_index_mapping_try(a, r) ==
    IF ~r.ok THEN r
    ELSE LET formatted_mapping == JsonDumps(r.val) IN
         IF ~formatted_mapping.ok THEN formatted_mapping
         ELSE Ok(Envelope(MappingText(a.index, formatted_mapping.val)))

\* get_index_mapping_tool with the fixed message of the weather handler's kind
get_index_mapping_tool_generic(a, r) ==
    LET t == get_index_mapping_try(a, r) IN
    IF t.ok THEN t ELSE Ok(Envelope(ErrMappingPrefix))

get_index_mapping_tool(a, r) ==
    LET t == get_index_mapping_try(a, r) IN
    IF t.ok THEN t ELSE Ok(Envelope(ErrMappingPrefix \o t.exc.msg))

\* RedactSource that leaves metadata alone
RedactSource_embedding_only(src) ==
    LET hasEmbedding == Contains(src, "embedding") IN
    IF ~hasEmbedding.ok THEN hasEmbedding
    ELSE IF hasEmbedding.val THEN DelItem(src, "embedding") ELSE Ok(src)

\* the two deletions applied to item["_source"]
RedactSource(src) ==
    LET hasEmbedding == Contains(src, "embedding") IN
    IF ~hasEmbedding.ok THEN hasEmbedding
    ELSE LET d == IF hasEmbedding.val THEN DelItem(src, "embedding") ELSE Ok(src) IN
         IF ~d.ok THEN d
         ELSE LET hasMetadata == Contains(d.val, "metadata") IN
              IF ~hasMetadata.ok THEN hasMetadata
              ELSE IF ~hasMetadata.val THEN d
              ELSE LET m == Subscript(d.val, "metadata") IN
                   IF ~m.ok THEN m
                   ELSE IF m.val.kind = "dict" /\ "_node_content" \in Keys(m.val)
                        THEN Ok(SetKey(d.val, "metadata", DelKey(m.val, "_node_content")))
                        ELSE d

\* the body of the loop over the hits, for one item
RedactItem(item) ==
    IF item.kind = "dict" /\ "_source" \in Keys(item)
    THEN LET src == RedactSource(Lookup(item, "_source")) IN
         IF ~src.ok THEN src ELSE Ok(SetKey(item, "_source", src.val))
    ELSE Ok(item)

\* the loop over the hits, from the i-th on
RECURSIVE RedactHits(_, _)
RedactHits(items, i) ==
    IF i > Len(items) THEN Ok(items)
    ELSE LET it == RedactItem(items[i]) IN
         IF ~it.ok THEN it ELSE RedactHits([items EXCEPT ![i] = it.val], i + 1)

search_index_try(a, r) ==
    IF ~r.ok THEN r
    ELSE LET outer == GetMethod(r.val, "hits", Dict(<<>>)) IN
         IF ~outer.ok THEN outer
         ELSE LET inner == GetMethod(outer.val, "hits", List(<<>>)) IN
              IF ~inner.ok THEN inner
              ELSE LET it == Iterate(inner.val) IN
                   IF ~it.ok THEN it
                   ELSE LET red == RedactHits(it.val, 1) IN
                        IF ~red.ok THEN red
                        ELSE LET \* the deletions were made in place, inside result
                                 result == IF inner.val.kind = "list"
                                           THEN SetKey(r.val, "hits",
                                                       SetKey(outer.val, "hits", List(red.val)))
                                           ELSE r.val
                                 formatted_result == JsonDumps(result)
                             IN IF ~formatted_result.ok THEN formatted_result
                                ELSE Ok(Envelope(SearchText(a.index, formatted_result.val)))

search_index_tool(a, r) ==
    LET t == search_index_try(a, r) IN
    IF t.ok THEN t ELSE Ok(Envelope(ErrSearchPrefix \o t.exc.msg))

\* the columns k..8 of the row of one shard
RECURSIVE ShardRow(_, _)
ShardRow(shard, k) ==
    IF k > Len(ShardKeys) THEN Ok(<<>>)
    ELSE LET f == Subscript(shard, ShardKeys[k]) IN
         IF ~f.ok THEN f
         ELSE LET rest == ShardRow(shard, k + 1) IN
              IF ~rest.ok THEN rest
              ELSE Ok(Format(f.val)
                      \o (IF k < Len(ShardKeys) THEN ColumnSep ELSE <<"\n">>)
                      \o rest.val)

\* the rows of the shards from the i-th on
RECURSIVE ShardRows(_, _)
ShardRows(shards, i) ==
    IF i > Len(shards) THEN Ok(<<>>)
    ELSE LET row == ShardRow(shards[i], 1) IN
         IF ~row.ok THEN row
         ELSE LET rest == ShardRows(shards, i + 1) IN
              IF ~rest.ok THEN rest ELSE Ok(row.val \o rest.val)

\* get_shards_try without the test for an error-shaped result
get_shards_try_no_error_test(a, r) ==
    IF ~r.ok THEN r
    ELSE LET it == Iterate(r.val) IN
         IF ~it.ok THEN it
         ELSE LET rows == ShardRows(it.val, 1) IN
              IF ~rows.ok THEN rows ELSE Ok(Envelope(ShardsHeader \o rows.val))

get_shards_try(a, r) ==
    IF ~r.ok THEN r
    ELSE IF r.val.kind = "dict" /\ "error" \in Keys(r.val)
    THEN Ok(Envelope(ErrShardsPrefix \o Format(Lookup(r.val, "error"))))
    ELSE LET it == Iterate(r.val) IN
         IF ~it.ok THEN it
         ELSE LET rows == ShardRows(it.val, 1) IN
              IF ~rows.ok THEN rows ELSE Ok(Envelope(ShardsHeader \o rows.val))

\* get_shards_tool reporting a fault with the prefix of a reported error
get_shards_tool_one_prefix(a, r) ==
    LET t == get_shards_try(a, r) IN
    IF t.ok THEN t ELSE Ok(Envelope(ErrShardsPrefix \o t.exc.msg))

get_shards_tool(a, r) ==
    LET t == get_shards_try(a, r) IN
    IF t.ok THEN t ELSE Ok(Envelope(ErrShardsInfoPrefix \o t.exc.msg))

\* a lookup that first completes or case-folds the name
AreaLookup_normalized(table, prefecture) ==
    LET name == CASE prefecture = "Tokyo" -> "Tokyo-to"
                  [] prefecture = "tokyo-to" -> "Tokyo-to"
                  [] OTHER -> prefecture
    IN IF name \in DOMAIN table THEN table[name] ELSE NoCode

\* AREA_CODES.get(prefecture); a missing key and an empty code are both falsy
AreaLookup(table, prefecture) ==
    IF prefecture \in DOMAIN table THEN table[prefecture] ELSE NoCode

\* response.raise_for_status()
RaiseForStatus(status) ==
    IF status >= 400 /\ status < 600
    THEN Raise("HTTPError", <<ToString(status), " ",
                              IF status < 500 THEN "Client" ELSE "Server", " ", "Error">>)
    ELSE Ok(Null)

\* the try block from requests.get on; h is what the HTTP exchange did:
\* h.conn the fault of requests.get (or NoExc), h.status the HTTP status,
\* h.json what response.json() does
weather_after_lookup(a, h) ==
    IF h.conn.type # "none" THEN Raise(h.conn.type, h.conn.msg)
    ELSE LET st == RaiseForStatus(h.status) IN
         IF ~st.ok THEN st
         ELSE IF ~h.json.ok THEN h.json
         ELSE LET office == GetMethod(h.json.val, "publishingOffice", DefaultUnknown) IN
              IF ~office.ok THEN office
              ELSE LET datetime == GetMethod(h.json.val, "reportDatetime", DefaultUnknown)
                       text == GetMethod(h.json.val, "text", DefaultText)
                   IN Ok(Envelope(WeatherText(a.prefecture, Format(office.val),
                                              Format(datetime.val), Format(text.val))))

\* an except clause that reports the fault like the OpenSearch handlers do
weather_except_verbatim(t) ==
    IF t.ok THEN t ELSE Ok(Envelope(WeatherFailureText \o <<":", " ">> \o t.exc.msg))

\* the except clause of get_weather_tool
weather_except(t) ==
    IF t.ok THEN t ELSE Ok(Envelope(WeatherFailureText))

get_weather_tool(table, a, h) ==
    IF AreaLookup(table, a.prefecture) = NoCode
    THEN Ok(Envelope(UnsupportedText(a.prefecture)))
    ELSE weather_except(weather_after_lookup(a, h))

(* ---------------------------------------------------------------------- *)
(* Inputs: arguments the host passes and behaviours of the collaborators   *)
(* ---------------------------------------------------------------------- *)

SeqsUpTo(S, n) == UNION {[1..k -> S] : k \in 0..n}

\* exceptions a collaborator raises
Faults ==
    {Exc("ConnectionError", <<"Connection", " ", "refused">>),
     Exc("TransportError", <<"timeout">>),
     Exc("Exception", <<"cluster", " ", "unavailable">>),
     Exc("Exception", <<>>)}

IndexArgs == {<<"logs">>, <<"my", "-", "index">>}

QueryArgs == {Dict(<<Item("match_all", Dict(<<>>))>>), Null}

\* every key of AREA_CODES, two near misses of a key and the empty string
PrefectureArgs == DOMAIN AreaCodeTable \cup {"Tokyo", "tokyo-to", ""}

NoArgs == [index |-> <<>>, query |-> Null, prefecture |-> ""]

\* the schema-valid argument objects of an argument model
ArgsFor(model, inp) ==
    CASE model = "ListIndicesArgs" -> {NoArgs}
      [] model = "GetIndexMappingArgs" -> {[NoArgs EXCEPT !.index = i] : i \in inp.indices}
      [] model = "SearchIndexArgs" ->
            {[NoArgs EXCEPT !.index = i, !.query = q] : i \in inp.indices, q \in inp.queries}
      [] model = "GetShardsArgs" -> {[NoArgs EXCEPT !.index = i] : i \in inp.indices}
      [] OTHER -> {[NoArgs EXCEPT !.prefecture = f] : f \in inp.prefectures}

IndexRecords ==
    {Dict(<<Item("index", Str(<<"logs">>)), Item("health", Str(<<"green">>))>>),
     Dict(<<Item("health", Str(<<"green">>)), Item("index", Str(<<"my", "-", "index">>))>>),
     Dict(<<Item("health", Str(<<"red">>))>>),
     Dict(<<Item("index", Num(7))>>),
     Str(<<"logs">>)}

ListResponses(n) ==
    {Ok(List(q)) : q \in SeqsUpTo(IndexRecords, n)}
    \cup {Ok(Null)}
    \cup {Raise(f.type, f.msg) : f \in Faults}

MappingValues ==
    {Dict(<<Item("logs", Dict(<<Item("mappings", Dict(<<Item("properties",
        Dict(<<Item("title", Dict(<<Item("type", Str(<<"text">>))>>))>>))>>))>>))>>),
     Dict(<<>>),
     Null,
     List(<<Num(1), Str(<<"a", "\"", "b">>)>>),
     Dict(<<Item("raw", Obj)>>)}

MappingResponses ==
    {Ok(v) : v \in MappingValues} \cup {Raise(f.type, f.msg) : f \in Faults}

Embedding == List(<<Num(1), Num(2)>>)

MetadataValues ==
    {Dict(<<Item("file", Str(<<"a", ".", "txt">>))>>),
     Dict(<<Item("_node_content", Str(<<"{", "}">>)), Item("file", Str(<<"a", ".", "txt">>))>>),
     Dict(<<Item("embedding", Embedding), Item("_node_content", Null)>>),
     Str(<<"raw">>)}

SourceDicts ==
    {Dict(<<Item("title", Str(<<"t">>))>> \o e \o m \o <<Item("n", Num(4))>>) :
        e \in {<<>>, <<Item("embedding", Embedding)>>},
        m \in {<<>>} \cup {<<Item("metadata", v)>> : v \in MetadataValues}}

SourceValues ==
    SourceDicts \cup {Null, List(<<Str(<<"embedding">>)>>), Str(<<"metadata">>), Str(<<"raw">>)}

\* elements of hits.hits
HitValues ==
    {Dict(<<Item("_id", Str(<<"1">>)), Item("_source", src)>>) : src \in SourceValues}
    \cup {Dict(<<Item("_id", Str(<<"2">>)), Item("embedding", Embedding)>>),
          Str(<<"_source">>)}

SearchResult(hits) ==
    Dict(<<Item("took", Num(3)),
           Item("hits", Dict(<<Item("total", Num(Len(hits))), Item("hits", List(hits))>>))>>)

MalformedResults ==
    {Dict(<<>>),
     List(<<>>),
     Null,
     Dict(<<Item("hits", Null)>>),
     Dict(<<Item("hits", Dict(<<Item("hits", Null)>>))>>),
     Dict(<<Item("hits", Dict(<<Item("hits", Dict(<<Item("embedding", Embedding)>>))>>))>>),
     Dict(<<Item("hits", Dict(<<Item("hits", List(<<>>))>>)), Item("raw", Obj)>>)}

SearchResponses(n) ==
    {Ok(SearchResult(q)) : q \in SeqsUpTo(HitValues, n)}
    \cup {Ok(v) : v \in MalformedResults}
    \cup {Raise(f.type, f.msg) : f \in Faults}

ShardA ==
    Dict(<<Item("index", Str(<<"logs">>)), Item("shard", Str(<<"0">>)),
           Item("prirep", Str(<<"p">>)), Item("state", Str(<<"STARTED">>)),
           Item("docs", Str(<<"12">>)), Item("store", Str(<<"5", ".", "1kb">>)),
           Item("ip", Str(<<"10", ".", "0", ".", "0", ".", "1">>)),
           Item("node", Str(<<"node", "-", "1">>))>>)

\* all eight keys, in another order, with an extra key and non-str values
ShardB ==
    Dict(<<Item("node", Str(<<"node", "-", "2">>)), Item("index", Str(<<"my", "-", "index">>)),
           Item("shard", Num(1)), Item("prirep", Str(<<"r">>)),
           Item("state", Str(<<"UNASSIGNED">>)), Item("docs", Null), Item("store", Null),
           Item("ip", Null), Item("unassigned.reason", Str(<<"NODE", "_", "LEFT">>))>>)

FullShards == {ShardA, ShardB}

ShardRecords ==
    FullShards
    \cup {DelKey(ShardA, "docs"), DelKey(ShardB, "node"), DelKey(ShardA, "index"),
          Str(<<"logs">>)}

\* values of the error key of an error-shaped result
ErrorValues ==
    {Str(<<"cluster", " ", "unavailable">>),
     Str(<<"information", ":", " ", "timeout">>),
     Str(<<>>),
     Dict(<<Item("type", Str(<<"index", "_", "not", "_", "found">>))>>)}

ErrorResults ==
    {Dict(<<Item("error", e)>>) : e \in ErrorValues}
    \cup {Dict(<<Item("status", Num(503)), Item("error", e)>>) : e \in ErrorValues}

ShardsResponses(n) ==
    {Ok(List(q)) : q \in SeqsUpTo(ShardRecords, n)}
    \cup {Ok(v) : v \in ErrorResults}
    \cup {Ok(Dict(<<>>)), Ok(Dict(<<Item("status", Num(200))>>)), Ok(Null)}
    \cup {Raise(f.type, f.msg) : f \in Faults}

NoOutcome == [ok |-> FALSE, val |-> Null, exc |-> NoExc]

ForecastBodies ==
    {Dict(o \o d \o t) :
        o \in {<<>>, <<Item("publishingOffice", Str(<<"kishocho">>))>>},
        d \in {<<>>, <<Item("reportDatetime",
                            Str(<<"2024", "-", "01", "-", "01T10", ":", "00">>))>>},
        t \in {<<>>, <<Item("text", Str(<<"hare">>))>>}}
    \cup {List(<<>>), Null}

\* what requests.get, the HTTP status and response.json() do
HttpExchanges ==
    {[conn |-> f, status |-> 0, json |-> NoOutcome] :
        f \in {Exc("ConnectionError", <<"Connection", " ", "refused">>),
               Exc("Timeout", <<"timed", " ", "out">>)}}
    \cup {[conn |-> NoExc, status |-> st, json |-> Ok(Dict(<<>>))] : st \in {404, 500}}
    \cup {[conn |-> NoExc, status |-> 200, json |-> j] :
            j \in {Ok(b) : b \in ForecastBodies}
                  \cup {Raise("JSONDecodeError", <<"Expecting", " ", "value">>)}}

\* the inputs of the sequential host: everything above
FullInputs ==
    [indices |-> IndexArgs, queries |-> QueryArgs, prefectures |-> PrefectureArgs,
     list_indices |-> ListResponses(MaxItems), get_index_mapping |-> MappingResponses,
     search_index |-> SearchResponses(MaxItems), get_shards |-> ShardsResponses(MaxItems),
     http |-> HttpExchanges]

\* the inputs of the concurrent host: per collaborator a success, a fault and
\* the case its handler treats specially
ConcInputs ==
    [indices |-> {<<"logs">>}, queries |-> {Null}, prefectures |-> {"Tokyo-to", "Tokyo"},
     list_indices |->
        {Ok(List(<<Dict(<<Item("index", Str(<<"logs">>))>>)>>)),
         Raise("TransportError", <<"timeout">>)},
     get_index_mapping |->
        {Ok(Dict(<<Item("logs", Dict(<<>>))>>)), Raise("TransportError", <<"timeout">>)},
     search_index |->
        {Ok(SearchResult(<<Dict(<<Item("_source",
                Dict(<<Item("embedding", Embedding), Item("title", Str(<<"t">>))>>))>>)>>)),
         Raise("TransportError", <<"timeout">>)},
     get_shards |->
        {Ok(List(<<ShardA>>)), Ok(Dict(<<Item("error", Str(<<"timeout">>))>>)),
         Raise("TransportError", <<"timeout">>)},
     http |->
        {[conn |-> Exc("ConnectionError", <<"Connection", " ", "refused">>),
          status |-> 0, json |-> NoOutcome],
         [conn |-> NoExc, status |-> 404, json |-> Ok(Dict(<<>>))],
         [conn |-> NoExc, status |-> 200,
          json |-> Raise("JSONDecodeError", <<"Expecting", " ", "value">>)],
         [conn |-> NoExc, status |-> 200, json |-> Ok(List(<<>>))],
         [conn |-> NoExc, status |-> 200,
          json |-> Ok(Dict(<<Item("text", Str(<<"hare">>))>>))]}]

(* ---------------------------------------------------------------------- *)
(* The state machine.  pc[p]: "idle" (no invocation in slot p), "entered"  *)
(* (the host called the handler), "awaiting" (the handler issued its       *)
(* outbound call and blocks on it), "returned" (ret[p] is what the host    *)
(* got: Ok(envelope), or Raise(..) for a fault that escaped).              *)
(* ---------------------------------------------------------------------- *)

OutboundCall(callee, a, url) == [callee |-> callee, args |-> a, url |-> url]

Init ==
    /\ AREA_CODES = AreaCodeTable
    /\ TOOL_REGISTRY = RegistryTable
    /\ pc = [p \in Procs |-> "idle"]
    /\ tool = [p \in Procs |-> "none"]
    /\ args = [p \in Procs |-> NoArgs]
    /\ resp = [p \in Procs |-> NoOutcome]
    /\ ret = [p \in Procs |-> NoOutcome]
    /\ outbound = [p \in Procs |-> <<>>]

\* the function the registry gives for the tool of slot p
Handler(p) == TOOL_REGISTRY[tool[p]].function

\* the host looks the tool up, validates the arguments and calls the handler;
\* a host that awaits each handler starts one only when no other is in a slot
Invoke(p, inp, awaited) ==
    /\ pc[p] = "idle"
    /\ awaited => \A q \in Procs \ {p} : pc[q] = "idle"
    /\ \E name \in DOMAIN TOOL_REGISTRY :
         \E a \in ArgsFor(TOOL_REGISTRY[name].args_model, inp) :
            /\ tool' = [tool EXCEPT ![p] = name]
            /\ args' = [args EXCEPT ![p] = a]
    /\ pc' = [pc EXCEPT ![p] = "entered"]
    /\ UNCHANGED <<AREA_CODES, TOOL_REGISTRY, resp, ret, outbound>>

\* a handler that calls its helper a second time
CallHelper_retry(p, function, callee) ==
    /\ pc[p] = "entered"
    /\ Handler(p) = function
    /\ outbound' = [outbound EXCEPT ![p] = @ \o <<OutboundCall(callee, args[p], <<>>),
                                                  OutboundCall(callee, args[p], <<>>)>>]
    /\ pc' = [pc EXCEPT ![p] = "awaiting"]
    /\ UNCHANGED <<AREA_CODES, TOOL_REGISTRY, tool, args, resp, ret>>

\* a handler calls its OpenSearch helper
CallHelper(p, function, callee) ==
    /\ pc[p] = "entered"
    /\ Handler(p) = function
    /\ outbound' = [outbound EXCEPT ![p] = Append(@, OutboundCall(callee, args[p], <<>>))]
    /\ pc' = [pc EXCEPT ![p] = "awaiting"]
    /\ UNCHANGED <<AREA_CODES, TOOL_REGISTRY, tool, args, resp, ret>>

\* the helper returned or raised r, the handler runs to its return
Finish(p, r, result) ==
    /\ resp' = [resp EXCEPT ![p] = r]
    /\ ret' = [ret EXCEPT ![p] = result]
    /\ pc' = [pc EXCEPT ![p] = "returned"]
    /\ UNCHANGED <<AREA_CODES, TOOL_REGISTRY, tool, args, outbound>>

CallListIndices(p) == CallHelper(p, "list_indices_tool", "list_indices")

ReturnListIndices(p, inp) ==
    /\ pc[p] = "awaiting"
    /\ Handler(p) = "list_indices_tool"
    /\ \E r \in inp.list_indices : Finish(p, r, list_indices_tool(args[p], r))

CallGetIndexMapping(p) == CallHelper(p, "get_index_mapping_tool", "get_index_mapping")

ReturnGetIndexMapping(p, inp) ==
    /\ pc[p] = "awaiting"
    /\ Handler(p) = "get_index_mapping_tool"
    /\ \E r \in inp.get_index_mapping : Finish(p, r, get_index_mapping_tool(args[p], r))

CallSearchIndex(p) == CallHelper(p, "search_index_tool", "search_index")

ReturnSearchIndex(p, inp) ==
    /\ pc[p] = "awaiting"
    /\ Handler(p) = "search_index_tool"
    /\ \E r \in inp.search_index : Finish(p, r, search_index_tool(args[p], r))

CallGetShards(p) == CallHelper(p, "get_shards_tool", "get_shards")

ReturnGetShards(p, inp) ==
    /\ pc[p] = "awaiting"
    /\ Handler(p) = "get_shards_tool"
    /\ \E r \in inp.get_shards : Finish(p, r, get_shards_tool(args[p], r))

\* get_weather_tool taking the code out of the table (AREA_CODES.pop)
CallGetWeather_pop(p) ==
    /\ pc[p] = "entered"
    /\ Handler(p) = "get_weather_tool"
    /\ LET code == AreaLookup(AREA_CODES, args[p].prefecture) IN
       IF code = NoCode
       THEN /\ ret' = [ret EXCEPT ![p] = Ok(Envelope(UnsupportedText(args[p].prefecture)))]
            /\ pc' = [pc EXCEPT ![p] = "returned"]
            /\ UNCHANGED <<outbound, AREA_CODES>>
       ELSE /\ outbound' = [outbound EXCEPT
                              ![p] = Append(@, OutboundCall("requests.get", args[p],
                                                            ForecastUrl(code)))]
            /\ pc' = [pc EXCEPT ![p] = "awaiting"]
            /\ AREA_CODES' = [k \in DOMAIN AREA_CODES \ {args[p].prefecture} |-> AREA_CODES[k]]
            /\ UNCHANGED ret
    /\ UNCHANGED <<TOOL_REGISTRY, tool, args, resp>>

\* get_weather_tool up to requests.get: an unsupported prefecture returns at once
CallGetWeather(p) ==
    /\ pc[p] = "entered"
    /\ Handler(p) = "get_weather_tool"
    /\ LET code == AreaLookup(AREA_CODES, args[p].prefecture) IN
       IF code = NoCode
       THEN /\ ret' = [ret EXCEPT ![p] = Ok(Envelope(UnsupportedText(args[p].prefecture)))]
            /\ pc' = [pc EXCEPT ![p] = "returned"]
            /\ UNCHANGED outbound
       ELSE /\ outbound' = [outbound EXCEPT
                              ![p] = Append(@, OutboundCall("requests.get", args[p],
                                                            ForecastUrl(code)))]
            /\ pc' = [pc EXCEPT ![p] = "awaiting"]
            /\ UNCHANGED ret
    /\ UNCHANGED <<AREA_CODES, TOOL_REGISTRY, tool, args, resp>>

\* get_weather_tool from the outcome of requests.get on
ReturnGetWeather(p, inp) ==
    /\ pc[p] = "awaiting"
    /\ Handler(p) = "get_weather_tool"
    /\ \E h \in inp.http : Finish(p, h, weather_except(weather_after_lookup(args[p], h)))

\* the host has relayed the envelope: the argument object and the envelope are discarded
Release(p) ==
    /\ pc[p] = "returned"
    /\ pc' = [pc EXCEPT ![p] = "idle"]
    /\ tool' = [tool EXCEPT ![p] = "none"]
    /\ args' = [args EXCEPT ![p] = NoArgs]
    /\ resp' = [resp EXCEPT ![p] = NoOutcome]
    /\ ret' = [ret EXCEPT ![p] = NoOutcome]
    /\ outbound' = [outbound EXCEPT ![p] = <<>>]
    /\ UNCHANGED <<AREA_CODES, TOOL_REGISTRY>>

Step(p, inp, awaited) ==
    \/ Invoke(p, inp, awaited)
    \/ CallListIndices(p)
    \/ ReturnListIndices(p, inp)
    \/ CallGetIndexMapping(p)
    \/ ReturnGetIndexMapping(p, inp)
    \/ CallSearchIndex(p)
    \/ ReturnSearchIndex(p, inp)
    \/ CallGetShards(p)
    \/ ReturnGetShards(p, inp)
    \/ CallGetWeather(p)
    \/ ReturnGetWeather(p, inp)
    \/ Release(p)

\* the host awaits each handler before it dispatches the next invocation
Next == \E p \in Procs : Step(p, FullInputs, TRUE)

Spec == Init /\ [][Next]_vars

\* the host dispatches invocations concurrently
NextConc == \E p \in Procs : Step(p, ConcInputs, FALSE)

SpecConc == Init /\ [][NextConc]_vars

(* ---------------------------------------------------------------------- *)
(* Properties                                                              *)
(* ---------------------------------------------------------------------- *)

Returned(p, name) == pc[p] = "returned" /\ tool[p] = name

\* the handler of slot p returned exactly the envelope [{"type": "text", "text": t}]
ReturnsText(p, t) == ret[p].ok /\ ret[p].val = Envelope(t)

\* the text of the first record of the envelope slot p returned
TextOf(p) == ret[p].val[1].text

HasPrefix(t, pre) == Len(t) >= Len(pre) /\ SubSeq(t, 1, Len(pre)) = pre

ContainsSeq(t, s) == \E i \in 1..(Len(t) - Len(s) + 1) : SubSeq(t, i, i + Len(s) - 1) = s

WellFormedEnvelope(e) ==
    /\ Len(e) >= 1
    /\ \A i \in 1..Len(e) :
         /\ DOMAIN e[i] = {"type", "text"}
         /\ e[i].type = "text"
         /\ e[i].text \in Seq(STRING)

\* C1: whatever tool of the registry is invoked and whatever its collaborator
\* returns or raises, the handler returns a non-empty sequence of
\* {type: "text", text: <string>} records; no fault escapes to the caller.
C1_EnvelopeAlways ==
    \A p \in Procs :
        pc[p] = "returned" => (ret[p].ok /\ WellFormedEnvelope(ret[p].val))

\* a handler returned after its collaborator raised
C1_Witness ==
    \E p \in Procs : Returned(p, "ListIndexTool") /\ ~resp[p].ok /\ ReturnsText(p, ErrListingPrefix)

\* what the claim asks of one hit: embedding gone from _source, _node_content
\* gone from _source.metadata, every other field as the collaborator gave it
ScrubbedMetadata(m) ==
    IF m.kind = "dict" THEN Dict(SelectSeq(m.val, LAMBDA it : it.key # "_node_content")) ELSE m

ScrubbedSource(src) ==
    IF src.kind # "dict" THEN src
    ELSE LET kept == SelectSeq(src.val, LAMBDA it : it.key # "embedding") IN
         Dict([i \in 1..Len(kept) |->
                 IF kept[i].key = "metadata"
                 THEN Item("metadata", ScrubbedMetadata(kept[i].val))
                 ELSE kept[i]])

ScrubbedHit(h) ==
    IF h.kind # "dict" THEN h
    ELSE Dict([i \in 1..Len(h.val) |->
                 IF h.val[i].key = "_source"
                 THEN Item("_source", ScrubbedSource(h.val[i].val))
                 ELSE h.val[i]])

\* the hits under hits.hits of a search result
HitsOf(result) ==
    IF /\ result.kind = "dict"
       /\ "hits" \in Keys(result)
       /\ Lookup(result, "hits").kind = "dict"
       /\ "hits" \in Keys(Lookup(result, "hits"))
       /\ Lookup(Lookup(result, "hits"), "hits").kind = "list"
    THEN Lookup(Lookup(result, "hits"), "hits").val
    ELSE <<>>

ScrubbedResult(result) ==
    IF HitsOf(result) = <<>> THEN result
    ELSE Dict([i \in 1..Len(result.val) |->
            IF result.val[i].key # "hits" THEN result.val[i]
            ELSE Item("hits", Dict([j \in 1..Len(result.val[i].val.val) |->
                    IF result.val[i].val.val[j].key # "hits" THEN result.val[i].val.val[j]
                    ELSE Item("hits", List([k \in 1..Len(HitsOf(result)) |->
                                               ScrubbedHit(HitsOf(result)[k])]))]))])

SearchSuccessPrefix(p) == SearchText(args[p].index, <<>>)

\* C2: whenever search_index_tool returns a success text, the serialised
\* result has, for every hit under hits.hits (not only the first), no
\* embedding in _source and no _node_content in _source.metadata, and every
\* other field of the hit with its value unchanged.
C2_RedactionEveryHit ==
    \A p \in Procs :
        (Returned(p, "SearchIndexTool") /\ ret[p].ok /\ HasPrefix(TextOf(p), SearchSuccessPrefix(p)))
        => /\ resp[p].ok
           /\ TextOf(p) = SearchText(args[p].index, Dumps(ScrubbedResult(resp[p].val), 0))
           /\ \A k \in 1..Len(HitsOf(ScrubbedResult(resp[p].val))) :
                LET h == HitsOf(ScrubbedResult(resp[p].val))[k] IN
                (h.kind = "dict" /\ "_source" \in Keys(h) /\ Lookup(h, "_source").kind = "dict")
                => /\ "embedding" \notin Keys(Lookup(h, "_source"))
                   /\ \A i \in 1..Len(Lookup(h, "_source").val) :
                        LET f == Lookup(h, "_source").val[i] IN
                        (f.key = "metadata" /\ f.val.kind = "dict")
                        => "_node_content" \notin Keys(f.val)

\* a success text for two hits, the second one carrying both fields
C2_Witness ==
    \E p \in Procs :
        /\ Returned(p, "SearchIndexTool") /\ resp[p].ok
        /\ HasPrefix(TextOf(p), SearchSuccessPrefix(p))
        /\ Len(HitsOf(resp[p].val)) = 2
        /\ LET h == HitsOf(resp[p].val)[2] IN
           /\ h.kind = "dict" /\ "_source" \in Keys(h)
           /\ Lookup(h, "_source").kind = "dict"
           /\ {"embedding", "metadata"} \subseteq Keys(Lookup(h, "_source"))
           /\ Lookup(Lookup(h, "_source"), "metadata").kind = "dict"
           /\ "_node_content" \in Keys(Lookup(Lookup(h, "_source"), "metadata"))

ErrorShaped(r) == r.ok /\ r.val.kind = "dict" /\ "error" \in Keys(r.val)

\* C3: when get_shards returns a mapping with an error key of value e,
\* get_shards_tool returns exactly "Error getting shards: " followed by e,
\* and the text has no table header.
C3_ErrorShapedResult ==
    \A p \in Procs :
        (Returned(p, "GetShardsTool") /\ ErrorShaped(resp[p]))
        => /\ ReturnsText(p, ErrShardsPrefix \o Format(Lookup(resp[p].val, "error")))
           /\ ~ContainsSeq(TextOf(p), ShardsHeader)

\* {"error": "cluster unavailable"} gave "Error getting shards: cluster unavailable"
C3_Witness ==
    \E p \in Procs :
        /\ Returned(p, "GetShardsTool")
        /\ resp[p] = Ok(Dict(<<Item("error", Str(<<"cluster", " ", "unavailable">>))>>))
        /\ ReturnsText(p, <<"Error", " ", "getting", " ", "shards", ":", " ",
                            "cluster", " ", "unavailable">>)

CarriesAllKeys(shard) ==
    shard.kind = "dict" /\ \A k \in 1..Len(ShardKeys) : ShardKeys[k] \in Keys(shard)

\* a result that is a sequence of shard records each carrying all eight keys
ShardTable(r) ==
    r.ok /\ r.val.kind = "list" /\ \A i \in 1..Len(r.val.val) : CarriesAllKeys(r.val.val[i])

\* the data line the claim asks for one shard
ExpectedRow(shard) ==
    Format(Lookup(shard, "index")) \o <<" ", "|", " ">> \o
    Format(Lookup(shard, "shard")) \o <<" ", "|", " ">> \o
    Format(Lookup(shard, "prirep")) \o <<" ", "|", " ">> \o
    Format(Lookup(shard, "state")) \o <<" ", "|", " ">> \o
    Format(Lookup(shard, "docs")) \o <<" ", "|", " ">> \o
    Format(Lookup(shard, "store")) \o <<" ", "|", " ">> \o
    Format(Lookup(shard, "ip")) \o <<" ", "|", " ">> \o
    Format(Lookup(shard, "node"))

\* the lexemes of t after its n-th newline, up to the next newline
RECURSIVE LineFrom(_, _)
LineFrom(t, i) ==
    IF i > Len(t) \/ t[i] = "\n" THEN <<>> ELSE <<t[i]>> \o LineFrom(t, i + 1)

NewlinesOf(t) == {i \in 1..Len(t) : t[i] = "\n"}

\* the n-th line of t, n >= 1
Line(t, n) ==
    IF n = 1 THEN LineFrom(t, 1)
    ELSE LET nl == CHOOSE i \in NewlinesOf(t) :
                       Cardinality({j \in NewlinesOf(t) : j < i}) = n - 2
         IN LineFrom(t, nl + 1)

HeaderLine == SubSeq(ShardsHeader, 1, Len(ShardsHeader) - 1)

\* C4: for n >= 0 shard records that each carry all eight keys, the text is
\* one header line followed by exactly n data lines, the i-th built from the
\* i-th record in the column order index, shard, prirep, state, docs, store,
\* ip, node, joined by " | ".
C4_TableRendering ==
    \A p \in Procs :
        (Returned(p, "GetShardsTool") /\ ShardTable(resp[p]))
        => /\ ret[p].ok /\ Len(ret[p].val) = 1
           /\ LET t == TextOf(p)
                  n == Len(resp[p].val.val)
              IN /\ Cardinality(NewlinesOf(t)) = n + 1
                 /\ t[Len(t)] = "\n"
                 /\ Line(t, 1) = HeaderLine
                 /\ \A i \in 1..n : Line(t, i + 1) = ExpectedRow(resp[p].val.val[i])

\* two different records, rendered in the order given
C4_Witness ==
    \E p \in Procs :
        /\ Returned(p, "GetShardsTool")
        /\ resp[p] = Ok(List(<<ShardB, ShardA>>))
        /\ ret[p].ok
        /\ Line(TextOf(p), 3) = ExpectedRow(ShardA)

IsKey(prefecture) == prefecture \in DOMAIN AreaCodeTable

\* C5: get_weather_tool issues an HTTP GET iff the prefecture is exactly a
\* key of AREA_CODES, and then for the URL of that key's code (Tokyo-to ->
\* 130000); for any other string no call is made at any point and the
\* returned text is the unsupported-prefecture warning naming the string.
C5_LookupGatesCall ==
    \A p \in Procs :
        tool[p] = "GetWeatherTool"
        => /\ ~IsKey(args[p].prefecture)
              => /\ outbound[p] = <<>>
                 /\ pc[p] # "awaiting"
                 /\ pc[p] = "returned" => ReturnsText(p, UnsupportedText(args[p].prefecture))
           /\ (IsKey(args[p].prefecture) /\ pc[p] \in {"awaiting", "returned"})
              => /\ Len(outbound[p]) = 1
                 /\ outbound[p][1].callee = "requests.get"
                 /\ outbound[p][1].url = ForecastUrl(AreaCodeTable[args[p].prefecture])
                 /\ ~(ret[p].ok /\ ret[p].val = Envelope(UnsupportedText(args[p].prefecture)))
           /\ (args[p].prefecture = "Tokyo-to" /\ pc[p] = "returned")
              => "130000" \in Lexemes(outbound[p][1].url)

\* a near miss of a key returned the warning without a call
C5_Witness ==
    \E p \in Procs :
        /\ Returned(p, "GetWeatherTool")
        /\ args[p].prefecture = "Tokyo"
        /\ outbound[p] = <<>>
        /\ ReturnsText(p, UnsupportedText("Tokyo"))

\* the run of get_weather_tool failed at the request, the status or the parsing
WeatherFailed(h) ==
    \/ h.conn.type # "none"
    \/ h.status \in 400..599
    \/ ~h.json.ok
    \/ h.json.val.kind # "dict"

\* C6: for a supported prefecture, any two runs of get_weather_tool that
\* fail at the request, the HTTP status or the parsing return the same fixed
\* failure text, whatever the kind and message of the fault.
C6_FaultHiding ==
    \A p, q \in Procs :
        (/\ Returned(p, "GetWeatherTool") /\ IsKey(args[p].prefecture) /\ WeatherFailed(resp[p])
         /\ Returned(q, "GetWeatherTool") /\ IsKey(args[q].prefecture) /\ WeatherFailed(resp[q]))
        => /\ ret[p] = ret[q]
           /\ ReturnsText(p, WeatherFailureText)

\* two returned runs that failed with different faults
C6_Witness ==
    \E p, q \in Procs :
        /\ Returned(p, "GetWeatherTool") /\ Returned(q, "GetWeatherTool")
        /\ IsKey(args[p].prefecture) /\ IsKey(args[q].prefecture)
        /\ resp[p].conn.type = "ConnectionError"
        /\ resp[q].conn.type = "none" /\ resp[q].status = 200 /\ ~resp[q].json.ok

\* C7: when the collaborator call or the reshaping after it raises a fault
\* with message m, list_indices_tool returns exactly "Error listing indices: "
\* + m, get_index_mapping_tool "Error getting mapping: " + m and
\* search_index_tool "Error searching index: " + m, and nothing else.
C7_FaultVerbatim ==
    \A p \in Procs :
        /\ (Returned(p, "ListIndexTool") /\ ~list_indices_try(args[p], resp[p]).ok)
           => ReturnsText(p, ErrListingPrefix \o list_indices_try(args[p], resp[p]).exc.msg)
        /\ (Returned(p, "IndexMappingTool") /\ ~get_index_mapping_try(args[p], resp[p]).ok)
           => ReturnsText(p, ErrMappingPrefix \o get_index_mapping_try(args[p], resp[p]).exc.msg)
        /\ (Returned(p, "SearchIndexTool") /\ ~search_index_try(args[p], resp[p]).ok)
           => ReturnsText(p, ErrSearchPrefix \o search_index_try(args[p], resp[p]).exc.msg)
        /\ (pc[p] = "returned" /\ tool[p] \in {"ListIndexTool", "IndexMappingTool", "SearchIndexTool"}
            /\ ~resp[p].ok)
           => ReturnsText(p, (CASE tool[p] = "ListIndexTool" -> ErrListingPrefix
                                [] tool[p] = "IndexMappingTool" -> ErrMappingPrefix
                                [] OTHER -> ErrSearchPrefix) \o resp[p].exc.msg)
        /\ (Returned(p, "IndexMappingTool") /\ resp[p] = Raise("TransportError", <<"timeout">>))
           => ReturnsText(p, <<"Error", " ", "getting", " ", "mapping", ":", " ", "timeout">>)

\* get_index_mapping raised "timeout"
C7_Witness ==
    \E p \in Procs :
        /\ Returned(p, "IndexMappingTool")
        /\ resp[p] = Raise("TransportError", <<"timeout">>)
        /\ ReturnsText(p, <<"Error", " ", "getting", " ", "mapping", ":", " ", "timeout">>)

\* C8 as stated: every handler invocation has made exactly one outbound call
\* when it returns, on every path.
C8_ExactlyOneCall ==
    \A p \in Procs : pc[p] = "returned" => Len(outbound[p]) = 1

\* C8, amended: no invocation ever makes a second outbound call, and an
\* invocation has made exactly one when it returns, fault paths included,
\* except get_weather_tool with a prefecture that is not a key of AREA_CODES,
\* which returns without any.
C8_AtMostOneCall ==
    \A p \in Procs :
        /\ Len(outbound[p]) <= 1
        /\ pc[p] = "returned"
           => (Len(outbound[p]) = 0
               <=> (tool[p] = "GetWeatherTool" /\ ~IsKey(args[p].prefecture)))

\* a handler returned on a fault path after its one call
C8_Witness ==
    \E p \in Procs :
        /\ Returned(p, "GetShardsTool") /\ ~resp[p].ok
        /\ Len(outbound[p]) = 1 /\ outbound[p][1].callee = "get_shards"

\* the envelope the invocation of slot p returns when run alone, with the
\* tables as loaded, on the same arguments and collaborator behaviour
Alone(p) ==
    LET f == RegistryTable[tool[p]].function IN
    CASE f = "list_indices_tool" -> list_indices_tool(args[p], resp[p])
      [] f = "get_index_mapping_tool" -> get_index_mapping_tool(args[p], resp[p])
      [] f = "search_index_tool" -> search_index_tool(args[p], resp[p])
      [] f = "get_shards_tool" -> get_shards_tool(args[p], resp[p])
      [] OTHER -> get_weather_tool(AreaCodeTable, args[p], resp[p])

\* C9: no invocation changes TOOL_REGISTRY or AREA_CODES, and under any
\* interleaving each invocation returns the envelope it returns run alone.
C9_ReadOnlyIndependent ==
    /\ TOOL_REGISTRY = RegistryTable
    /\ AREA_CODES = AreaCodeTable
    /\ \A p \in Procs : pc[p] = "returned" => ret[p] = Alone(p)

\* two invocations of the same tool overlapped and both returned
C9_Witness ==
    \E p, q \in Procs :
        /\ p # q
        /\ Returned(p, "GetWeatherTool") /\ Returned(q, "GetWeatherTool")
        /\ args[p] = args[q] /\ IsKey(args[p].prefecture)
        /\ ret[p] # ret[q]

\* get_shards raised, or a record of the result lacks one of the eight keys
ShardsFault(r) ==
    \/ ~r.ok
    \/ r.val.kind = "null"
    \/ r.val.kind = "list" /\ \E i \in 1..Len(r.val.val) : ~CarriesAllKeys(r.val.val[i])

\* C10: a fault while calling get_shards or rendering (a record missing a key
\* included) gives a text starting "Error getting shards information: " with
\* no partial table, a collaborator-reported error a text starting "Error
\* getting shards: ", and whatever the error value and the fault message the
\* two texts differ.
C10_ErrorsDistinct ==
    \A p \in Procs :
        Returned(p, "GetShardsTool")
        => /\ ShardsFault(resp[p])
              => /\ ret[p].ok /\ Len(ret[p].val) = 1
                 /\ HasPrefix(TextOf(p), ErrShardsInfoPrefix)
                 /\ ~HasPrefix(TextOf(p), ErrShardsPrefix)
                 /\ ~ContainsSeq(TextOf(p), HeaderLine)
                 /\ \A e \in ErrorValues : TextOf(p) # ErrShardsPrefix \o Format(e)
           /\ ErrorShaped(resp[p])
              => /\ ret[p].ok /\ Len(ret[p].val) = 1
                 /\ HasPrefix(TextOf(p), ErrShardsPrefix)
                 /\ ~HasPrefix(TextOf(p), ErrShardsInfoPrefix)
                 /\ \A f \in Faults : TextOf(p) # ErrShardsInfoPrefix \o f.msg

\* the second record lacks "node": the fault text, not a header and one row
C10_Witness ==
    \E p \in Procs :
        /\ Returned(p, "GetShardsTool")
        /\ resp[p] = Ok(List(<<ShardA, DelKey(ShardB, "node")>>))
        /\ ReturnsText(p, ErrShardsInfoPrefix \o <<"'", "node", "'">>)

====
